---- MODULE Spec2Model ----
(***************************************************************************)
(* Model of abstract_soft_delete.py: SoftDeleteQuerySet, SoftDeleteManager *)
(* and SoftDeleteModel over one table of the host ORM.                     *)
(*                                                                         *)
(* The table is a function from primary keys to rows; a row has the        *)
(* deleted_at column of the mixin and one further column, name, standing   *)
(* for the columns of the adopting model.  In-memory model instances and   *)
(* query-set objects are separate from the table: an instance is a copy of *)
(* a row taken when it was loaded, a query-set object carries its manager, *)
(* its filter and the deleted_item_pks attribute.                          *)
(*                                                                         *)
(* Every SQL statement is one atomic step.  QuerySet.soft_delete issues    *)
(* two statements (the SELECT of line 10 and the UPDATE of line 11), so it *)
(* is two steps and other actors may run between them.  Either statement   *)
(* may raise a database error, which the except clause of lines 12-14      *)
(* handles.  timezone.now() is any value of Times.  The variables last and *)
(* pre record the call of the mixin just made and the table before it, so  *)
(* that the effect of a call is a state predicate; after a step of the     *)
(* host application they hold no call and the table as it is.              *)
(***************************************************************************)
EXTENDS Integers, FiniteSets, TLC

\* ---------------------------------------------------------------- bounds
MaxPk == 2
MaxTime == 1

\* deleted_at = None (default=None, null=True)
NULL == 0

PKs == 1..MaxPk
Times == 1..MaxTime
\* the actors: one in-memory model instance and one query-set variable,
\* beside the host application's own statements
Insts == {1}
QSs == {1}
Names == {"a", "b"}
\* filters of the query sets built: .all() and .filter(pk=1)
Filters == {PKs, {1}}

\* values a caller passes as delete_permanently; "omitted" is a call
\* without the argument
Args == {"omitted", "True", "False", "int_1", "str_yes"}
\* errors a statement of the database backend raises (subclasses of Exception)
DbErrors == {"OperationalError"}

VARIABLES table, nextPk, inst, qs, last, pre

vars == <<table, nextPk, inst, qs, last, pre>>

NoRow == [present |-> FALSE, deleted_at |-> NULL, name |-> "a"]

\* ------------------------------------------------------------- managers
\* (mutation: the manager without its filter)
get_queryset_unfiltered(t) == {p \in PKs : t[p].present}

\* SoftDeleteManager.get_queryset: filter(deleted_at__isnull=True)
get_queryset(t) == {p \in PKs : t[p].present /\ t[p].deleted_at = NULL}

\* all_objects = models.Manager(): every stored row
all_objects(t) == {p \in PKs : t[p].present}

\* (mutation: restore goes through the filtered manager whatever is passed)
Manager_ignoring_argument(m, t) == get_queryset(t)

\* the manager attribute named by m
Manager(m, t) == IF m = "objects" THEN get_queryset(t) ELSE all_objects(t)

\* rows a query-set object matches: its manager's rows, narrowed by filter
Match(q, t) == Manager(q.mgr, t) \cap q.flt

\* ------------------------------------------------------------ statements
\* (mutation: the UPDATE without its WHERE clause)
update_deleted_at_everywhere(t, S, v) ==
    [p \in PKs |-> IF t[p].present
                   THEN [t[p] EXCEPT !.deleted_at = v] ELSE t[p]]

\* QuerySet.update(deleted_at=v) on the rows S
update_deleted_at(t, S, v) ==
    [p \in PKs |-> IF p \in S /\ t[p].present
                   THEN [t[p] EXCEPT !.deleted_at = v] ELSE t[p]]

\* (mutation: the permanent path marks the rows instead of deleting them)
super_delete_marking(t, S) == update_deleted_at(t, S, 1)

\* models.QuerySet.delete / models.Model.delete: DELETE of the rows S
super_delete(t, S) == [p \in PKs |-> IF p \in S THEN NoRow ELSE t[p]]

\* Model.save(): with a pk, UPDATE of every column and INSERT when no row
\* matched; without a pk, INSERT under the next key of the sequence
save_pk(o, np) == IF o.pk = NULL THEN np ELSE o.pk

save(t, o, np) ==
    [t EXCEPT ![save_pk(o, np)] =
        [present |-> TRUE, deleted_at |-> o.deleted_at, name |-> o.name]]

\* Python's delete_permanently == True
DefaultArg(v) == IF v = "omitted" THEN "False" ELSE v

PyEqTrue(v) == DefaultArg(v) \in {"True", "int_1"}

\* hasattr(self, "deleted_item_pks") and self.deleted_item_pks
HasCapturedKeys(q) == q.has /\ q.pks # {}

\* (mutation: the handler without the reset of the key list)
except_handler_keeping_keys(q) == [q EXCEPT !.has = TRUE, !.pc = "ready"]

\* lines 12-14: except Exception as e: self.deleted_item_pks = []; raise e
except_handler(q) == [q EXCEPT !.has = TRUE, !.pks = {}, !.pc = "ready"]

\* --------------------------------------------------------------- records
Step(op, who, arg, err, inj, pk, K) ==
    [op |-> op, who |-> who, arg |-> arg, err |-> err, inj |-> inj,
     pk |-> pk, K |-> K]

\* a step of the host application, which no call of the mixin's methods is
HostStep == Step("host", 0, "omitted", "none", "none", NULL, {})

FreshQS(m, f) ==
    [mgr |-> m, flt |-> f, has |-> FALSE, pks |-> {}, pc |-> "ready"]

FreshInst == [pk |-> NULL, deleted_at |-> NULL, name |-> "a"]

Init ==
    /\ table = [p \in PKs |-> NoRow]
    /\ nextPk = 1
    /\ inst = [i \in Insts |-> FreshInst]
    /\ qs = [q \in QSs |-> FreshQS("objects", PKs)]
    /\ last = HostStep
    /\ pre = table

\* ----------------------------------------------- operations of the host
\* SomeModel.objects.create(name=d)
Create(d) ==
    /\ nextPk <= MaxPk
    /\ table' = [table EXCEPT ![nextPk] =
                    [present |-> TRUE, deleted_at |-> NULL, name |-> d]]
    /\ nextPk' = nextPk + 1
    /\ last' = HostStep
    /\ pre' = table'
    /\ UNCHANGED <<inst, qs>>

\* i = SomeModel.all_objects.get(pk=p)
Load(i, p) ==
    /\ p \in all_objects(table)
    /\ inst' = [inst EXCEPT ![i] =
                   [pk |-> p, deleted_at |-> table[p].deleted_at,
                    name |-> table[p].name]]
    /\ last' = HostStep
    /\ pre' = table
    /\ UNCHANGED <<table, nextPk, qs>>

\* SomeModel.all_objects.filter(pk=p).update(name=d)
UpdateName(p, d) ==
    /\ p \in all_objects(table)
    /\ table[p].name # d
    /\ table' = [table EXCEPT ![p].name = d]
    /\ last' = HostStep
    /\ pre' = table'
    /\ UNCHANGED <<nextPk, inst, qs>>

\* q = SomeModel.<m>.filter(pk__in=f); f = PKs is SomeModel.<m>.all()
NewQS(q, m, f) ==
    /\ qs[q].pc = "ready"
    /\ qs' = [qs EXCEPT ![q] = FreshQS(m, f)]
    /\ last' = HostStep
    /\ pre' = table
    /\ UNCHANGED <<table, nextPk, inst>>

\* ------------------------------------------------------ SoftDeleteQuerySet
\* line 10: self.deleted_item_pks = list(self.only("pk").values_list(...)),
\* or the statement raises and lines 12-14 run
QuerySet_capture(q, op, v) ==
    \/ /\ qs' = [qs EXCEPT ![q].has = TRUE, ![q].pks = Match(qs[q], table),
                           ![q].pc = "captured"]
       /\ last' = Step(op, q, v, "none", "none", NULL, qs[q].pks)
       /\ pre' = table
       /\ UNCHANGED <<table, nextPk, inst>>
    \/ \E e \in DbErrors :
       /\ qs' = [qs EXCEPT ![q] = except_handler(qs[q])]
       /\ last' = Step("qs_capture_failed", q, v, e, e, NULL, qs[q].pks)
       /\ pre' = table
       /\ UNCHANGED <<table, nextPk, inst>>

\* line 11: self.update(deleted_at=timezone.now()), or the statement raises
\* and lines 12-14 run
QuerySet_update(q) ==
    /\ qs[q].pc = "captured"
    /\ \/ \E t \in Times :
          /\ table' = update_deleted_at(table, Match(qs[q], table), t)
          /\ qs' = [qs EXCEPT ![q].pc = "ready"]
          /\ last' = Step("qs_soft_deleted", q, "omitted", "none", "none",
                          NULL, qs[q].pks)
       \/ \E e \in DbErrors :
          /\ table' = table
          /\ qs' = [qs EXCEPT ![q] = except_handler(qs[q])]
          /\ last' = Step("qs_update_failed", q, "omitted", e, e,
                          NULL, qs[q].pks)
    /\ pre' = table
    /\ UNCHANGED <<nextPk, inst>>

\* a call that raises before any statement is issued
Raises(op, who, v, e) ==
    /\ last' = Step(op, who, v, e, "none", NULL, {})
    /\ pre' = table
    /\ UNCHANGED <<table, nextPk, inst, qs>>

\* q.soft_delete(), lines 8-14; all_objects hands out a plain QuerySet,
\* which has no such method
QuerySet_soft_delete(q) ==
    /\ qs[q].pc = "ready"
    /\ IF qs[q].mgr = "objects"
       THEN QuerySet_capture(q, "qs_soft_delete", "omitted")
       ELSE Raises("qs_soft_delete", q, "omitted", "AttributeError")

\* q.delete(delete_permanently=v), lines 21-24; on a plain QuerySet it is
\* models.QuerySet.delete(), which takes no argument
QuerySet_delete(q, v) ==
    /\ qs[q].pc = "ready"
    /\ IF qs[q].mgr = "objects"
       THEN IF PyEqTrue(v)
            THEN /\ table' = super_delete(table, Match(qs[q], table))
                 /\ last' = Step("qs_delete", q, v, "none", "none", NULL,
                                 Match(qs[q], table))
                 /\ pre' = table
                 /\ UNCHANGED <<nextPk, inst, qs>>
            ELSE QuerySet_capture(q, "qs_delete", v)
       ELSE IF v = "omitted"
            THEN /\ table' = super_delete(table, Match(qs[q], table))
                 /\ last' = Step("qs_delete", q, v, "none", "none", NULL,
                                 Match(qs[q], table))
                 /\ pre' = table
                 /\ UNCHANGED <<nextPk, inst, qs>>
            ELSE Raises("qs_delete", q, v, "TypeError")

\* (mutation: restore without the hasattr test: on an object that never
\* ran soft_delete the attribute lookup raises)
QuerySet_restore_without_hasattr(q, m) ==
    /\ qs[q].pc = "ready"
    /\ IF qs[q].mgr = "objects" /\ qs[q].has
       THEN /\ IF qs[q].pks # {}
               THEN /\ table' = update_deleted_at(
                                   table, Manager(m, table) \cap qs[q].pks, NULL)
                    /\ qs' = [qs EXCEPT ![q].pks = {}]
               ELSE UNCHANGED <<table, qs>>
            /\ last' = Step("qs_restore", q, m, "none", "none", NULL, qs[q].pks)
            /\ pre' = table
            /\ UNCHANGED <<nextPk, inst>>
       ELSE Raises("qs_restore", q, m, "AttributeError")

\* q.restore(use_manager), lines 16-19
QuerySet_restore(q, m) ==
    /\ qs[q].pc = "ready"
    /\ IF qs[q].mgr = "objects"
       THEN /\ IF HasCapturedKeys(qs[q])
               THEN /\ table' = update_deleted_at(
                                   table, Manager(m, table) \cap qs[q].pks, NULL)
                    /\ qs' = [qs EXCEPT ![q].pks = {}]
               ELSE UNCHANGED <<table, qs>>
            /\ last' = Step("qs_restore", q, m, "none", "none", NULL, qs[q].pks)
            /\ pre' = table
            /\ UNCHANGED <<nextPk, inst>>
       ELSE Raises("qs_restore", q, m, "AttributeError")

\* --------------------------------------------------------- SoftDeleteModel
\* self.save() of the instance o, bound to the variable i
Model_save(i, o, op, v) ==
    /\ o.pk = NULL => nextPk <= MaxPk
    /\ table' = save(table, o, nextPk)
    /\ nextPk' = IF o.pk = NULL THEN nextPk + 1 ELSE nextPk
    /\ inst' = [inst EXCEPT ![i] = [o EXCEPT !.pk = save_pk(o, nextPk)]]
    /\ last' = Step(op, i, v, "none", "none", inst[i].pk, {save_pk(o, nextPk)})
    /\ pre' = table
    /\ UNCHANGED qs

\* i.soft_delete(), lines 63-65
Model_soft_delete(i, op, v) ==
    \E t \in Times : Model_save(i, [inst[i] EXCEPT !.deleted_at = t], op, v)

\* i.delete(delete_permanently=v), lines 67-82; models.Model.delete raises
\* ValueError on an instance without a pk, and unsets the pk afterwards
Model_delete(i, v) ==
    IF PyEqTrue(v)
    THEN IF inst[i].pk = NULL
         THEN Raises("inst_delete", i, v, "ValueError")
         ELSE /\ table' = super_delete(table, {inst[i].pk})
              /\ inst' = [inst EXCEPT ![i].pk = NULL]
              /\ last' = Step("inst_delete", i, v, "none", "none",
                              inst[i].pk, {inst[i].pk})
              /\ pre' = table
              /\ UNCHANGED <<nextPk, qs>>
    ELSE Model_soft_delete(i, "inst_delete", v)

\* i.restore(), lines 84-86
Model_restore(i) ==
    Model_save(i, [inst[i] EXCEPT !.deleted_at = NULL], "inst_restore", "omitted")

\* ------------------------------------------------------------------ Next
Next ==
    \/ \E d \in Names : Create(d)
    \/ \E i \in Insts, p \in PKs : Load(i, p)
    \/ \E p \in PKs, d \in Names : UpdateName(p, d)
    \/ \E q \in QSs, m \in {"objects", "all_objects"}, f \in Filters :
          NewQS(q, m, f)
    \/ \E q \in QSs : QuerySet_soft_delete(q)
    \/ \E q \in QSs, v \in Args : QuerySet_delete(q, v)
    \/ \E q \in QSs : QuerySet_update(q)
    \/ \E q \in QSs, m \in {"objects", "all_objects"} : QuerySet_restore(q, m)
    \/ \E i \in Insts : Model_soft_delete(i, "inst_soft_delete", "omitted")
    \/ \E i \in Insts, v \in Args : Model_delete(i, v)
    \/ \E i \in Insts : Model_restore(i)

Spec == Init /\ [][Next]_vars

\* ---------------------------------------------------------------- claims
Active(t, p) == t[p].present /\ t[p].deleted_at = NULL

SoftDeleted(t, p) == t[p].present /\ t[p].deleted_at # NULL

\* the query-set object of the step just taken
LastQS == qs[last.who]

\* in storage with a marker: hidden from objects, visible through all_objects
Hidden(p) ==
    /\ SoftDeleted(table, p)
    /\ p \notin get_queryset(table)
    /\ p \in all_objects(table)

\* C1: a non-permanent delete() on the instance of a stored, active record,
\* or on an objects query set matching it, leaves the row stored with a
\* non-null deleted_at, absent from objects and present in all_objects.
\* (The query-set call completes with its UPDATE statement.)
C1_SoftDeleteHidesRecord ==
    /\ (/\ last.op = "inst_delete"
        /\ last.arg \in {"omitted", "False"}
        /\ last.pk # NULL
        /\ Active(pre, last.pk)) => Hidden(last.pk)
    /\ last.op = "qs_soft_deleted" =>
          \A p \in PKs : (Active(pre, p) /\ p \in LastQS.flt) => Hidden(p)

C1_Witness ==
    /\ last.op = "qs_soft_deleted"
    /\ LastQS.flt = PKs
    /\ \A p \in PKs : Active(pre, p) /\ Hidden(p)

\* C2: delete(delete_permanently=True) on an instance or on an objects query
\* set removes every targeted row from storage (absent from objects and from
\* all_objects), soft-deleted before or not, and writes no marker: every
\* row left is as it was.
C2_PermanentDeleteRemovesRow ==
    /\ (/\ last.op = "inst_delete"
        /\ last.arg = "True"
        /\ last.pk # NULL) =>
          /\ last.pk \notin all_objects(table)
          /\ last.pk \notin get_queryset(table)
          /\ \A p \in PKs \ {last.pk} : table[p] = pre[p]
    /\ (/\ last.op = "qs_delete"
        /\ last.arg = "True"
        /\ LastQS.mgr = "objects") =>
          \A p \in PKs :
             IF Active(pre, p) /\ p \in LastQS.flt
             THEN p \notin all_objects(table) /\ p \notin get_queryset(table)
             ELSE table[p] = pre[p]

C2_Witness ==
    /\ last.op = "inst_delete"
    /\ last.arg = "True"
    /\ last.pk # NULL
    /\ SoftDeleted(pre, last.pk)
    /\ ~table[last.pk].present

\* C3: for every value of delete_permanently other than the boolean True,
\* truthy ones such as the integer 1 included, delete() on an instance and
\* on a query set takes the soft-delete path: the targeted rows stay in
\* storage, the instance's row marked, the query set's keys captured for
\* the UPDATE that marks them.
C3_OnlyTrueDeletesPermanently ==
    /\ (/\ last.op = "inst_delete"
        /\ last.arg # "True"
        /\ last.pk # NULL
        /\ pre[last.pk].present) => SoftDeleted(table, last.pk)
    /\ (/\ last.op = "qs_delete"
        /\ last.arg # "True"
        /\ LastQS.mgr = "objects"
        /\ \E p \in LastQS.flt : Active(pre, p)) =>
          /\ LastQS.pc = "captured"
          /\ \A p \in PKs : pre[p].present => table[p].present

\* C4 as stated: with all N stored records soft-deleted, restore(all_objects)
\* on a query set newly obtained from objects makes objects.count() == N.
C4_FreshQuerySetRestoresAll ==
    (/\ last.op = "qs_restore"
     /\ last.arg = "all_objects"
     /\ LastQS.mgr = "objects"
     /\ LastQS.flt = PKs
     /\ ~LastQS.has
     /\ all_objects(pre) # {}
     /\ get_queryset(pre) = {}) =>
        Cardinality(get_queryset(table)) = Cardinality(all_objects(pre))

\* C4 amended: with all N stored records soft-deleted, restore(all_objects)
\* on the query-set object whose delete() captured their N keys makes
\* objects.count() == N; on an object holding no captured keys (a newly
\* obtained query set) it leaves objects.count() == 0.
C4_CapturingQuerySetRestoresAll ==
    (/\ last.op = "qs_restore"
     /\ last.arg = "all_objects"
     /\ LastQS.mgr = "objects"
     /\ all_objects(pre) # {}
     /\ get_queryset(pre) = {}) =>
        /\ last.K = all_objects(pre) =>
              Cardinality(get_queryset(table)) = Cardinality(all_objects(pre))
        /\ last.K = {} => Cardinality(get_queryset(table)) = 0

C4_Witness ==
    /\ last.op = "qs_restore"
    /\ last.arg = "all_objects"
    /\ get_queryset(pre) = {}
    /\ last.K = PKs
    /\ all_objects(pre) = PKs
    /\ get_queryset(table) = PKs

\* the effect C5 states of a query-set restore with captured keys K
RestoredExactly(K) ==
    \A p \in PKs :
       IF p \in K /\ pre[p].present
       THEN /\ Active(table, p)
            /\ p \in get_queryset(table)
            /\ table[p].name = pre[p].name
       ELSE table[p] = pre[p]

\* restore() on the instance of a soft-deleted record
InstanceRestored ==
    (/\ last.op = "inst_restore"
     /\ last.pk # NULL
     /\ SoftDeleted(pre, last.pk)) =>
        /\ Active(table, last.pk)
        /\ last.pk \in get_queryset(table)
        /\ \A p \in PKs \ {last.pk} : table[p] = pre[p]

\* C5 as stated: restore() on a soft-deleted instance, and restore(m) with
\* captured keys K for any manager m, clear deleted_at of exactly the
\* instance's row / the stored rows of K, which objects returns again; the
\* other rows keep their deleted_at.
C5_RestoreThroughAnyManager ==
    /\ InstanceRestored
    /\ (/\ last.op = "qs_restore"
        /\ LastQS.mgr = "objects"
        /\ last.K # {}) => RestoredExactly(last.K)

\* C5 amended: as stated for m = all_objects; with m = objects, whose query
\* set excludes the soft-deleted rows, restore(m) changes no row and only
\* empties the captured key list.
C5_RestoreThroughAllObjects ==
    /\ InstanceRestored
    /\ (/\ last.op = "qs_restore"
        /\ LastQS.mgr = "objects"
        /\ last.K # {}) =>
          /\ last.arg = "all_objects" => RestoredExactly(last.K)
          /\ last.arg = "objects" => table = pre
          /\ LastQS.pks = {}

C5_Witness ==
    /\ last.op = "qs_restore"
    /\ last.arg = "all_objects"
    /\ \E p \in last.K : SoftDeleted(pre, p) /\ Active(table, p)
    /\ \E p \in PKs \ last.K : SoftDeleted(pre, p) /\ SoftDeleted(table, p)

\* C6: restore(m) on a query-set object holding no captured keys (never
\* soft-deleted, an empty capture, or already restored) raises nothing and
\* changes no row, soft-deleted rows in its range or not.
C6_RestoreWithoutKeysIsNoOp ==
    (/\ last.op = "qs_restore"
     /\ LastQS.mgr = "objects"
     /\ last.K = {}) =>
        /\ last.err = "none"
        /\ table = pre
        /\ LastQS.pks = {}

C6_Witness ==
    /\ last.op = "qs_restore"
    /\ last.arg = "all_objects"
    /\ LastQS.mgr = "objects"
    /\ LastQS.has
    /\ last.K = {}
    /\ \E p \in LastQS.flt : SoftDeleted(table, p)

SoftDeleteFailed == last.op \in {"qs_capture_failed", "qs_update_failed"}

\* C7: when the key capture or the bulk update of soft_delete() raises, the
\* object's captured key list is empty afterwards, whatever it held, the
\* exception raised is the one propagated, no row has changed, and a
\* restore(m) on that object right after changes no row.
C7_FailedSoftDeleteClearsKeys ==
    /\ [](SoftDeleteFailed =>
             /\ LastQS.has
             /\ LastQS.pks = {}
             /\ last.err = last.inj
             /\ last.err \in DbErrors
             /\ table = pre)
    /\ [][(/\ SoftDeleteFailed
           /\ last'.op = "qs_restore"
           /\ last'.who = last.who) => table' = table]_vars

C7_Witness ==
    /\ last.op = "qs_capture_failed"
    /\ last.K # {}
    /\ \E p \in last.K : SoftDeleted(table, p)

\* C8: no delete() call made without delete_permanently=True, on an
\* instance, an objects query set or an all_objects query set, removes a
\* stored row: the stored rows are the same and every targeted row has a
\* non-null deleted_at.
C8_DeleteNeverRemovesRows ==
    /\ (/\ last.op = "inst_delete"
        /\ last.arg \in {"omitted", "False"}
        /\ last.pk # NULL
        /\ pre[last.pk].present) =>
          /\ all_objects(table) = all_objects(pre)
          /\ SoftDeleted(table, last.pk)
    /\ (/\ last.op = "qs_delete"
        /\ last.arg \in {"omitted", "False"}
        /\ last.err = "none") => all_objects(table) = all_objects(pre)
    /\ last.op = "qs_soft_deleted" =>
          /\ all_objects(table) = all_objects(pre)
          /\ \A p \in PKs : (Active(pre, p) /\ p \in LastQS.flt) =>
                SoftDeleted(table, p)

\* C9: after a successful query-set soft_delete() the captured key list is
\* exactly the set of rows whose deleted_at the call set, whatever other
\* actors did between the key capture and the bulk update.
C9_CapturedKeysAreRowsDeleted ==
    last.op = "qs_soft_deleted" =>
       LastQS.pks = {p \in PKs : Active(pre, p) /\ SoftDeleted(table, p)}

\* C10: soft_delete() and restore() on the instance of a stored record
\* change the deleted_at column of that row only: its other columns, the
\* other rows and the set of stored rows are as they were before the call.
C10_InstanceWritesDeletedAtOnly ==
    (/\ last.op \in {"inst_soft_delete", "inst_restore"}
     /\ last.pk # NULL) =>
        /\ all_objects(table) = all_objects(pre)
        /\ table[last.pk].name = pre[last.pk].name
        /\ \A p \in PKs \ {last.pk} : table[p] = pre[p]

====
